---- MODULE Spec2Model ----
(***************************************************************************)
(* Pomodoro timer + task list (pomodoro_frontend/src/App.js).              *)
(*                                                                         *)
(* The state is the React state of App, the interval registry of the       *)
(* browser, and the three localStorage records.  Every action is one       *)
(* event handler (or the interval callback, or a page load) together with  *)
(* the render it causes and the effects that render runs: the persist      *)
(* effects and the ticking effect.                                         *)
(***************************************************************************)
EXTENDS Integers, Sequences, FiniteSets, TLC

(***************************************************************************)
(* Bounds of the exploration.                                              *)
(***************************************************************************)
\* handler calls and page reloads explored after the first page load; the
\* ticks between them are not counted
MaxSteps == 5
\* a task is credited at most this many pomodoros
MaxPomodoros == 1
\* a decrementing tick is explored during the last MaxTick seconds of a session
MaxTick == 1

(***************************************************************************)
(* Program constants.                                                      *)
(***************************************************************************)
DEFAULT_WORK == 25 * 60
DEFAULT_BREAK == 5 * 60

(***************************************************************************)
(* JavaScript values that are not integers.  A number is an integer or     *)
(* NaN; a field read from a parsed record can also be undefined (absent),  *)
(* null, or a string that is not a number.                                 *)
(***************************************************************************)
NaN == -9001
Undefined == -9002
JNull == -9003
JString == -9004
NonNumbers == {NaN, Undefined, JNull, JString}

\* Number.isFinite(x): true of finite numbers only, false of every other type.
NumberIsFinite(x) == x \notin NonNumbers

\* truthiness of a field: undefined, null, NaN and 0 are falsy, "abc" is truthy
Truthy(x) == x \notin {Undefined, JNull, NaN, 0}

\* a || b
OrElse(a, b) == IF Truthy(a) THEN a ELSE b

\* Number(x)
ToNumber(x) ==
  CASE x = JString -> NaN
    [] x = Undefined -> NaN
    [] x = JNull -> 0
    [] OTHER -> x

\* prev > 0 (false when prev is NaN)
GreaterThanZero(x) == x # NaN /\ x > 0

\* JSON.stringify of a number: NaN is written as null
JsonNumber(x) == IF x = NaN THEN JNull ELSE x

MathMax(a, b) == IF a >= b THEN a ELSE b
MathMin(a, b) == IF a <= b THEN a ELSE b

(***************************************************************************)
(* A number typed into a settings field is modelled in half minutes, so    *)
(* that Math.floor has something to do: h stands for h / 2 minutes.        *)
(***************************************************************************)
MathFloorHalves(h) == h \div 2

\* Math.round(seconds / 60), as an integer number of minutes
MathRoundMinutes(sec) == (2 * sec + 60) \div 120

(***************************************************************************)
(* Text: a string is a sequence of characters.                             *)
(***************************************************************************)
RECURSIVE TrimStart(_)
TrimStart(s) ==
  IF s # <<>> /\ Head(s) = " " THEN TrimStart(Tail(s)) ELSE s

RECURSIVE TrimEnd(_)
TrimEnd(s) ==
  IF s # <<>> /\ s[Len(s)] = " " THEN TrimEnd(SubSeq(s, 1, Len(s) - 1)) ELSE s

\* String.prototype.trim
Trim(s) == TrimEnd(TrimStart(s))

\* what the user can type into the task input or the inline editor
Inputs == { <<>>, <<" ", " ">>, <<" ", "a", " ">> }

\* what the user can type into the inline editor of a task
EditInputs == { <<>>, <<"b", " ">> }

\* ids crypto.randomUUID() can return, in the order the model hands them out
IdPool == <<"u1", "u2", "u3", "u4", "u5", "u6">>

\* selectedTaskId = null
Null == "null"

(***************************************************************************)
(* localStorage.  A record is missing (getItem returns null), malformed    *)
(* (JSON.parse throws), the JSON value null, or a parsed value of the      *)
(* expected shape whose fields can still be anything.                      *)
(***************************************************************************)
TasksRecord(kind, list) == [kind |-> kind, list |-> list]
SettingsRecord(kind, w, b) == [kind |-> kind, workDuration |-> w, breakDuration |-> b]
StateRecord(kind, i, r) == [kind |-> kind, isWorkSession |-> i, remaining |-> r]

\* JSON.stringify(tasks)
StringifyTasks(ts) == TasksRecord("array", ts)
\* JSON.stringify({ workDuration, breakDuration })
StringifySettings(w, b) == SettingsRecord("object", JsonNumber(w), JsonNumber(b))
\* JSON.stringify({ isWorkSession, remaining })
StringifyState(i, r) ==
  StateRecord("object", IF i THEN "true" ELSE "false", JsonNumber(r))

(***************************************************************************)
(* State.                                                                  *)
(***************************************************************************)
VARIABLES
  isRunning,        \* useState(false)
  isWorkSession,    \* useState(true)
  workDuration,     \* useState(DEFAULT_WORK), seconds
  breakDuration,    \* useState(DEFAULT_BREAK), seconds
  remaining,        \* useState(DEFAULT_WORK), seconds
  tasks,            \* useState([]): sequence of [id, name, done, pomodoros]
  taskInput,        \* useState('')
  selectedTaskId,   \* useState(null)
  intervalRef,      \* useRef(null): the id of the registered interval it
                    \* names, 0 when it names none (null, or an id that was
                    \* cleared: clearInterval ignores both alike)
  timers,           \* the intervals registered with the browser, each with
                    \* the values its callback closed over
  ls,               \* localStorage: [tasks, settings, state]
  loaded,           \* history: the records the page load read, kept until
                    \* the first handler runs
  steps,            \* history: handler calls and reloads so far
  whileRunning,     \* history: the last handler call found the timer running,
                    \* left it running, and changed the selected task id or
                    \* a duration
  afterDelete,      \* history: "deleted" after deleteTask removed the selected
                    \* task, "added" once addTask ran after that, "none" before
                    \* any of it and after selectTask
  lastOp            \* history: the handler that ran last

vars ==
  << isRunning, isWorkSession, workDuration, breakDuration, remaining, tasks,
     taskInput, selectedTaskId, intervalRef, timers, ls, loaded, steps,
     whileRunning, afterDelete, lastOp >>

\* the value of loaded once a handler has run
NotLoading ==
  [ tasks |-> TasksRecord("none", <<>>),
    settings |-> SettingsRecord("none", Undefined, Undefined),
    state |-> StateRecord("none", "undefined", Undefined) ]

\* the React state of App as one value
AppState ==
  [ isRunning |-> isRunning, isWorkSession |-> isWorkSession,
    workDuration |-> workDuration, breakDuration |-> breakDuration,
    remaining |-> remaining, tasks |-> tasks, taskInput |-> taskInput,
    selectedTaskId |-> selectedTaskId ]

\* the useState initial values
InitialState ==
  [ isRunning |-> FALSE, isWorkSession |-> TRUE,
    workDuration |-> DEFAULT_WORK, breakDuration |-> DEFAULT_BREAK,
    remaining |-> DEFAULT_WORK, tasks |-> <<>>, taskInput |-> <<>>,
    selectedTaskId |-> Null ]

TaskIds(ts) == { ts[i].id : i \in DOMAIN ts }

(***************************************************************************)
(* Effects: load persisted state (runs once, on mount).                    *)
(* The whole body is one try block: the first record that throws ends it   *)
(* and the catch sets the durations and remaining to the defaults.  State  *)
(* updates made before the throw stay queued.                              *)
(***************************************************************************)
LoadEffect(st) ==
  LET throwTasks == st.tasks.kind = "malformed"
      \* getItem(...) || '[]' ; Array.isArray(savedTasks)
      tasksSet == st.tasks.kind \in {"missing", "array"}
      savedTasks == IF st.tasks.kind = "array" THEN st.tasks.list ELSE <<>>
      \* JSON.parse throws, or property access on null throws
      throwSettings == st.settings.kind \in {"malformed", "null"}
      sw == IF st.settings.kind = "object" THEN st.settings.workDuration ELSE Undefined
      sb == IF st.settings.kind = "object" THEN st.settings.breakDuration ELSE Undefined
      wd == ToNumber(OrElse(sw, DEFAULT_WORK))
      bd == ToNumber(OrElse(sb, DEFAULT_BREAK))
      throwState == st.state.kind \in {"malformed", "null"}
      si == IF st.state.kind = "object" THEN st.state.isWorkSession ELSE "undefined"
      sr == IF st.state.kind = "object" THEN st.state.remaining ELSE Undefined
      thrown == throwTasks \/ throwSettings \/ throwState
  IN  [ InitialState EXCEPT
          !.tasks = IF tasksSet THEN savedTasks ELSE @,
          !.workDuration =
            IF thrown THEN DEFAULT_WORK
            ELSE IF NumberIsFinite(wd) THEN wd ELSE DEFAULT_WORK,
          !.breakDuration =
            IF thrown THEN DEFAULT_BREAK
            ELSE IF NumberIsFinite(bd) THEN bd ELSE DEFAULT_BREAK,
          !.isWorkSession =
            IF ~thrown /\ si \in {"true", "false"} THEN si = "true" ELSE @,
          !.remaining =
            IF thrown THEN DEFAULT_WORK
            ELSE IF NumberIsFinite(sr) THEN sr
            ELSE IF si \in {"true", "truthy"} THEN wd ELSE bd ]

(***************************************************************************)
(* Effects: persist settings, state and tasks.  Each runs after a render   *)
(* in which one of its dependencies changed and overwrites its record.     *)
(* A setTasks that yields an equal list writes the text already stored.    *)
(***************************************************************************)
PersistSettings(store, old, new) ==
  IF <<old.workDuration, old.breakDuration>> # <<new.workDuration, new.breakDuration>>
  THEN [store EXCEPT !.settings = StringifySettings(new.workDuration, new.breakDuration)]
  ELSE store

PersistState(store, old, new) ==
  IF <<old.isWorkSession, old.remaining>> # <<new.isWorkSession, new.remaining>>
  THEN [store EXCEPT !.state = StringifyState(new.isWorkSession, new.remaining)]
  ELSE store

PersistTasks(store, old, new) ==
  IF old.tasks # new.tasks
  THEN [store EXCEPT !.tasks = StringifyTasks(new.tasks)]
  ELSE store

PersistEffects(store, old, new) ==
  PersistTasks(PersistState(PersistSettings(store, old, new), old, new), old, new)

\* the first run of the three effects, on mount: every record is written
PersistOnMount(s) ==
  [ tasks |-> StringifyTasks(s.tasks),
    settings |-> StringifySettings(s.workDuration, s.breakDuration),
    state |-> StringifyState(s.isWorkSession, s.remaining) ]

(***************************************************************************)
(* Effect: timer ticking.  Dependencies: isRunning, isWorkSession,         *)
(* workDuration, breakDuration, selectedTaskId.                            *)
(***************************************************************************)
\* the dependency list with isRunning alone: the callback keeps the values of
\* the render in which the timer was started
TickDeps_OnlyIsRunning(s) == << s.isRunning >>

\* the dependency list without selectedTaskId
TickDeps_WithoutSelectedTaskId(s) ==
  << s.isRunning, s.isWorkSession, s.workDuration, s.breakDuration >>

TickDeps(s) ==
  << s.isRunning, s.isWorkSession, s.workDuration, s.breakDuration, s.selectedTaskId >>

\* clearInterval(id): an id that names no registered interval is ignored
ClearInterval(reg, id) == { t \in reg : t.id # id }

\* setInterval returns an id no registered interval has
NewIntervalId(reg) ==
  CHOOSE i \in 1..(Cardinality(reg) + 1) :
    /\ \A t \in reg : t.id # i
    /\ \A j \in 1..(i - 1) : \E t \in reg : t.id = j

\* the callback of setInterval closes over the values of the render
Closure(id, s) ==
  [ id |-> id, isWorkSession |-> s.isWorkSession, workDuration |-> s.workDuration,
    breakDuration |-> s.breakDuration, selectedTaskId |-> s.selectedTaskId ]

\* the effect returns no cleanup
TickCleanup_Missing(reg, ref, old) == reg

\* the cleanup the previous run returned (only a run with isRunning returns one)
TickCleanup(reg, ref, old) ==
  IF old.isRunning THEN ClearInterval(reg, ref) ELSE reg

\* what the ref names once the registry is reg
Names(reg, ref) == IF \E t \in reg : t.id = ref THEN ref ELSE 0

\* the effect body
TickBody(reg, ref, new) ==
  IF ~new.isRunning
  THEN [timers |-> ClearInterval(reg, ref), intervalRef |-> Names(ClearInterval(reg, ref), ref)]
  ELSE LET id == NewIntervalId(reg)
       IN  [timers |-> reg \cup {Closure(id, new)}, intervalRef |-> id]

TickEffect(reg, ref, old, new) ==
  IF TickDeps(old) = TickDeps(new)
  THEN [timers |-> reg, intervalRef |-> ref]
  ELSE TickBody(TickCleanup(reg, ref, old), ref, new)

(***************************************************************************)
(* A render and its effects: the new React state is committed, the persist *)
(* effects and the ticking effect run.                                     *)
(***************************************************************************)
Commit(new, op) ==
  /\ isRunning' = new.isRunning
  /\ isWorkSession' = new.isWorkSession
  /\ workDuration' = new.workDuration
  /\ breakDuration' = new.breakDuration
  /\ remaining' = new.remaining
  /\ tasks' = new.tasks
  /\ taskInput' = new.taskInput
  /\ selectedTaskId' = new.selectedTaskId
  /\ ls' = PersistEffects(ls, AppState, new)
  /\ LET te == TickEffect(timers, intervalRef, AppState, new)
     IN  timers' = te.timers /\ intervalRef' = te.intervalRef
  /\ loaded' = NotLoading
  /\ op # "tick" => steps < MaxSteps
  /\ steps' = IF op = "tick" THEN steps ELSE steps + 1
  /\ whileRunning' =
       IF op = "tick" THEN whileRunning
       ELSE /\ isRunning
            /\ new.isRunning
            /\ << new.selectedTaskId, new.workDuration, new.breakDuration >>
                 # << selectedTaskId, workDuration, breakDuration >>
  /\ lastOp' = op

(***************************************************************************)
(* Page load: App mounts with the useState initial values; the effects run *)
(* in source order (load, the three persist effects, ticking); the state   *)
(* updates the load effect queued are rendered and the effects whose       *)
(* dependencies changed run again.                                         *)
(***************************************************************************)
Mount(st) ==
  LET new == LoadEffect(st)
  IN  [ state |-> new,
        ls |-> PersistEffects(PersistOnMount(InitialState), InitialState, new),
        te |-> TickEffect(TickBody({}, 0, InitialState).timers, 0, InitialState, new) ]

(***************************************************************************)
(* What localStorage can hold when the page is first opened.               *)
(***************************************************************************)
Task(id, name, done, pomodoros) ==
  [id |-> id, name |-> name, done |-> done, pomodoros |-> pomodoros]

StoredTasks ==
  { TasksRecord("missing", <<>>), TasksRecord("malformed", <<>>),
    TasksRecord("null", <<>>),
    TasksRecord("array", <<Task("u1", <<"a">>, FALSE, 0)>>),
    TasksRecord("array", <<Task("u1", <<"a">>, FALSE, 0), Task("u2", <<"b">>, TRUE, Undefined)>>),
    TasksRecord("array", <<Task("u1", <<"a">>, FALSE, 0), Task("u1", <<"b">>, TRUE, 0)>>) }

StoredSettings ==
  { SettingsRecord("missing", Undefined, Undefined),
    SettingsRecord("malformed", Undefined, Undefined),
    SettingsRecord("null", Undefined, Undefined),
    SettingsRecord("object", 120, 60),
    SettingsRecord("object", 2, 1),
    SettingsRecord("object", JString, Undefined) }

StoredState ==
  { StateRecord("missing", "undefined", Undefined),
    StateRecord("malformed", "undefined", Undefined),
    StateRecord("object", "true", 0),
    StateRecord("object", "false", 1),
    StateRecord("object", "true", Undefined),
    StateRecord("object", "truthy", JString) }

Init ==
  \E t \in StoredTasks, s \in StoredSettings, r \in StoredState :
    LET st == [tasks |-> t, settings |-> s, state |-> r]
        m == Mount(st)
    IN  /\ isRunning = m.state.isRunning
        /\ isWorkSession = m.state.isWorkSession
        /\ workDuration = m.state.workDuration
        /\ breakDuration = m.state.breakDuration
        /\ remaining = m.state.remaining
        /\ tasks = m.state.tasks
        /\ taskInput = m.state.taskInput
        /\ selectedTaskId = m.state.selectedTaskId
        /\ intervalRef = m.te.intervalRef
        /\ timers = m.te.timers
        /\ ls = m.ls
        /\ loaded = st
        /\ steps = 0
        /\ whileRunning = FALSE
        /\ afterDelete = "none"
        /\ lastOp = "mount"

\* the page is reloaded: the intervals of the old page are gone, App mounts
\* again and reads what is stored now
Reload ==
  LET m == Mount(ls)
  IN  /\ steps < MaxSteps
      /\ isRunning' = m.state.isRunning
      /\ isWorkSession' = m.state.isWorkSession
      /\ workDuration' = m.state.workDuration
      /\ breakDuration' = m.state.breakDuration
      /\ remaining' = m.state.remaining
      /\ tasks' = m.state.tasks
      /\ taskInput' = m.state.taskInput
      /\ selectedTaskId' = m.state.selectedTaskId
      /\ intervalRef' = m.te.intervalRef
      /\ timers' = m.te.timers
      /\ ls' = m.ls
      /\ loaded' = ls
      /\ steps' = steps + 1
      /\ whileRunning' = FALSE
      /\ afterDelete' = "none"
      /\ lastOp' = "reload"

(***************************************************************************)
(* The interval callback.                                                  *)
(***************************************************************************)
\* (t.pomodoros || 0) + 1
CreditTask(t) == [t EXCEPT !.pomodoros = OrElse(@, 0) + 1]

\* ts.map(t => t.id === selectedTaskId ? {...t, pomodoros: ...} : t)
CreditSelected(ts, sel) ==
  [ i \in DOMAIN ts |-> IF ts[i].id = sel THEN CreditTask(ts[i]) ELSE ts[i] ]

\* the callback with the two durations taken the wrong way round
TickCallback_SwappedDurations(s, c) ==
  IF GreaterThanZero(s.remaining)
  THEN [s EXCEPT !.remaining = @ - 1]
  ELSE LET nextIsWork == ~c.isWorkSession
           nextRemaining == IF nextIsWork THEN c.breakDuration ELSE c.workDuration
       IN  [ s EXCEPT
               !.tasks = IF c.isWorkSession /\ c.selectedTaskId # Null
                         THEN CreditSelected(@, c.selectedTaskId) ELSE @,
               !.isWorkSession = nextIsWork,
               !.remaining = nextRemaining ]

\* the callback crediting the selected task at the end of a break as well
TickCallback_CreditsEverySession(s, c) ==
  IF GreaterThanZero(s.remaining)
  THEN [s EXCEPT !.remaining = @ - 1]
  ELSE LET nextIsWork == ~c.isWorkSession
           nextRemaining == IF nextIsWork THEN c.workDuration ELSE c.breakDuration
       IN  [ s EXCEPT
               !.tasks = IF c.selectedTaskId # Null
                         THEN CreditSelected(@, c.selectedTaskId) ELSE @,
               !.isWorkSession = nextIsWork,
               !.remaining = nextRemaining ]

\* the callback without the branch that ends a session
TickCallback_StaysAtZero(s, c) ==
  IF GreaterThanZero(s.remaining) THEN [s EXCEPT !.remaining = @ - 1] ELSE s

\* setRemaining(prev => ...), with c the values the callback closed over
TickCallback(s, c) ==
  IF GreaterThanZero(s.remaining)
  THEN [s EXCEPT !.remaining = @ - 1]
  ELSE LET nextIsWork == ~c.isWorkSession
           nextRemaining == IF nextIsWork THEN c.workDuration ELSE c.breakDuration
       IN  [ s EXCEPT
               !.tasks = IF c.isWorkSession /\ c.selectedTaskId # Null
                         THEN CreditSelected(@, c.selectedTaskId) ELSE @,
               !.isWorkSession = nextIsWork,
               !.remaining = nextRemaining ]

Pomodoros(t) == OrElse(t.pomodoros, 0)

Tick ==
  \E c \in timers :
    /\ GreaterThanZero(remaining) => remaining <= MaxTick
    /\ \A i \in DOMAIN tasks :
         tasks[i].id = c.selectedTaskId => Pomodoros(tasks[i]) < MaxPomodoros
    /\ Commit(TickCallback(AppState, c), "tick")
    /\ UNCHANGED afterDelete

(***************************************************************************)
(* Handlers: timer.                                                        *)
(***************************************************************************)
\* startPause() starting the session over
startPause_ResetsRemaining(s) ==
  [ s EXCEPT
      !.isRunning = ~@,
      !.remaining = IF s.isWorkSession THEN s.workDuration ELSE s.breakDuration ]

\* setIsRunning(prev => !prev)
startPause(s) == [s EXCEPT !.isRunning = ~@]

StartPause ==
  /\ Commit(startPause(AppState), "startPause")
  /\ UNCHANGED afterDelete

\* setIsRunning(false); setRemaining(isWorkSession ? workDuration : breakDuration)
resetTimer(s) ==
  [ s EXCEPT
      !.isRunning = FALSE,
      !.remaining = IF s.isWorkSession THEN s.workDuration ELSE s.breakDuration ]

ResetTimer ==
  /\ Commit(resetTimer(AppState), "resetTimer")
  /\ UNCHANGED afterDelete

\* switchSession() taking the duration of the session kind it leaves
switchSession_OldDuration(s) ==
  LET next == ~s.isWorkSession
  IN  [ s EXCEPT
          !.isRunning = FALSE,
          !.isWorkSession = next,
          !.remaining = IF next THEN s.breakDuration ELSE s.workDuration ]

\* setIsRunning(false); setIsWorkSession(prev => { next = !prev; setRemaining(...) })
switchSession(s) ==
  LET next == ~s.isWorkSession
  IN  [ s EXCEPT
          !.isRunning = FALSE,
          !.isWorkSession = next,
          !.remaining = IF next THEN s.workDuration ELSE s.breakDuration ]

SwitchSession ==
  /\ Commit(switchSession(AppState), "switchSession")
  /\ UNCHANGED afterDelete

\* the Focus button
selectFocus(s) ==
  [s EXCEPT !.isRunning = FALSE, !.isWorkSession = TRUE, !.remaining = s.workDuration]

SelectFocus ==
  /\ Commit(selectFocus(AppState), "selectFocus")
  /\ UNCHANGED afterDelete

\* the Break button
selectBreak(s) ==
  [s EXCEPT !.isRunning = FALSE, !.isWorkSession = FALSE, !.remaining = s.breakDuration]

SelectBreak ==
  /\ Commit(selectBreak(AppState), "selectBreak")
  /\ UNCHANGED afterDelete

\* the focus minutes without the upper limit
WorkSeconds_NoUpperLimit(newWorkMin) == MathMax(1, MathFloorHalves(newWorkMin)) * 60

\* Math.max(1, Math.min(180, Math.floor(newWorkMin))) * 60
WorkSeconds(newWorkMin) == MathMax(1, MathMin(180, MathFloorHalves(newWorkMin))) * 60

\* Math.max(1, Math.min(60, Math.floor(newBreakMin))) * 60
BreakSeconds(newBreakMin) == MathMax(1, MathMin(60, MathFloorHalves(newBreakMin))) * 60

\* updateDurations(newWorkMin, newBreakMin), both in half minutes
updateDurations(s, newWorkMin, newBreakMin) ==
  LET w == WorkSeconds(newWorkMin)
      b == BreakSeconds(newBreakMin)
  IN  [ s EXCEPT
          !.workDuration = w,
          !.breakDuration = b,
          !.remaining = IF s.isWorkSession THEN w ELSE b ]

UpdateDurations(newWorkMin, newBreakMin) ==
  /\ Commit(updateDurations(AppState, newWorkMin, newBreakMin), "updateDurations")
  /\ UNCHANGED afterDelete

\* what is typed into the Focus (minutes) field, in half minutes: 1.5 and 181
TypedFocusMinutes == {3, 362}

\* what is typed into the Break (minutes) field, in half minutes: 61.5
TypedBreakMinutes == {123}

\* onChange of the Focus (minutes) field
ChangeFocusMinutes ==
  \E v \in TypedFocusMinutes : UpdateDurations(v, 2 * MathRoundMinutes(breakDuration))

\* onChange of the Break (minutes) field
ChangeBreakMinutes ==
  \E v \in TypedBreakMinutes : UpdateDurations(2 * MathRoundMinutes(workDuration), v)

(***************************************************************************)
(* Handlers: tasks.                                                        *)
(***************************************************************************)
\* onChange of the task input: setTaskInput(e.target.value)
SetTaskInput ==
  \E v \in Inputs :
    /\ v # taskInput
    /\ Commit([AppState EXCEPT !.taskInput = v], "setTaskInput")
    /\ UNCHANGED afterDelete

\* addTask() testing the input as typed, not trimmed
addTask_Untrimmed(s, id) ==
  IF s.taskInput = <<>>
  THEN s
  ELSE [ s EXCEPT
           !.tasks = <<Task(id, Trim(s.taskInput), FALSE, 0)>> \o @,
           !.taskInput = <<>>,
           !.selectedTaskId = IF @ = Null THEN id ELSE @ ]

\* addTask() putting the new task at the end of the list
addTask_Appends(s, id) ==
  LET name == Trim(s.taskInput)
  IN  IF name = <<>>
      THEN s
      ELSE [ s EXCEPT
               !.tasks = @ \o <<Task(id, name, FALSE, 0)>>,
               !.taskInput = <<>>,
               !.selectedTaskId = IF @ = Null THEN id ELSE @ ]

\* addTask(), with id the value crypto.randomUUID() returns
addTask(s, id) ==
  LET name == Trim(s.taskInput)
  IN  IF name = <<>>
      THEN s
      ELSE [ s EXCEPT
               !.tasks = <<Task(id, name, FALSE, 0)>> \o @,
               !.taskInput = <<>>,
               !.selectedTaskId = IF @ = Null THEN id ELSE @ ]

\* crypto.randomUUID(): an id no task of the list has.  Ids are opaque and only
\* compared for equality, so the first unused id of the pool stands for all.
NewTaskId(ts) ==
  IdPool[CHOOSE i \in DOMAIN IdPool :
           /\ IdPool[i] \notin TaskIds(ts)
           /\ \A j \in 1..(i - 1) : IdPool[j] \in TaskIds(ts)]

AddTask ==
  \E id \in {NewTaskId(tasks)} :
    /\ Commit(addTask(AppState, id), "addTask")
    /\ afterDelete' =
         IF Trim(taskInput) # <<>> /\ afterDelete = "deleted" THEN "added"
         ELSE afterDelete

\* prev.map(t => (t.id === id ? { ...t, done: !t.done } : t))
toggleTaskDone(s, id) ==
  [ s EXCEPT !.tasks =
      [ i \in DOMAIN @ |-> IF @[i].id = id THEN [@[i] EXCEPT !.done = ~@] ELSE @[i] ] ]

ToggleTaskDone(id) ==
  /\ Commit(toggleTaskDone(AppState, id), "toggleTaskDone")
  /\ UNCHANGED afterDelete

\* prev.filter(t => t.id !== id)
RECURSIVE FilterOut(_, _)
FilterOut(ts, id) ==
  IF ts = <<>> THEN <<>>
  ELSE IF Head(ts).id # id THEN <<Head(ts)>> \o FilterOut(Tail(ts), id)
  ELSE FilterOut(Tail(ts), id)

\* deleteTask(id) that leaves the selection alone
deleteTask_KeepsSelection(s, id) == [s EXCEPT !.tasks = FilterOut(@, id)]

\* setTasks(prev => prev.filter(...)); if (selectedTaskId === id) setSelectedTaskId(null)
deleteTask(s, id) ==
  [ s EXCEPT
      !.tasks = FilterOut(@, id),
      !.selectedTaskId = IF @ = id THEN Null ELSE @ ]

DeleteTask(id) ==
  /\ Commit(deleteTask(AppState, id), "deleteTask")
  /\ afterDelete' = IF selectedTaskId = id THEN "deleted" ELSE afterDelete

\* prev.map(t => (t.id === id ? { ...t, name } : t))
editTaskName(s, id, name) ==
  [ s EXCEPT !.tasks =
      [ i \in DOMAIN @ |-> IF @[i].id = id THEN [@[i] EXCEPT !.name = name] ELSE @[i] ] ]

EditTaskName(id, name) ==
  /\ Commit(editTaskName(AppState, id, name), "editTaskName")
  /\ UNCHANGED afterDelete

\* TaskItem.confirmEdit with value typed into the inline editor of task i
ConfirmEdit ==
  \E i \in DOMAIN tasks, value \in EditInputs :
    LET name == Trim(value)
    IN  /\ name # <<>>
        /\ name # tasks[i].name
        /\ EditTaskName(tasks[i].id, name)

\* setSelectedTaskId(id)
selectTask(s, id) == [s EXCEPT !.selectedTaskId = id]

SelectTask(id) ==
  /\ Commit(selectTask(AppState, id), "selectTask")
  /\ afterDelete' = "none"

\* the handlers each TaskItem row is given, bound to its task's id
OnToggle == \E id \in TaskIds(tasks) : ToggleTaskDone(id)
OnDelete == \E id \in TaskIds(tasks) : DeleteTask(id)
OnSelect == \E id \in TaskIds(tasks) : SelectTask(id)

Next ==
  \/ Tick
  \/ StartPause
  \/ ResetTimer
  \/ SwitchSession
  \/ SelectFocus
  \/ SelectBreak
  \/ ChangeFocusMinutes
  \/ ChangeBreakMinutes
  \/ SetTaskInput
  \/ AddTask
  \/ OnToggle
  \/ OnDelete
  \/ ConfirmEdit
  \/ OnSelect
  \/ Reload

Spec == Init /\ [][Next]_vars

(***************************************************************************)
(* The task handlers as an interface: toggleTaskDone, deleteTask,          *)
(* editTaskName and selectTask take any id, whether or not a task of the   *)
(* list has it.                                                            *)
(***************************************************************************)
\* ids a caller passes: one that stored tasks have, one that no task ever has
CallIds == {"u1", "u9"}

\* the name a caller passes to editTaskName
CallNames == { <<"c">> }

CallToggle == \E id \in CallIds : ToggleTaskDone(id)
CallDelete == \E id \in CallIds : DeleteTask(id)
CallEdit == \E id \in CallIds, name \in CallNames : EditTaskName(id, name)
CallSelect == \E id \in CallIds : SelectTask(id)

NextCalls ==
  \/ SetTaskInput
  \/ AddTask
  \/ CallToggle
  \/ CallDelete
  \/ CallEdit
  \/ CallSelect

SpecCalls == Init /\ [][NextCalls]_vars

(***************************************************************************)
(* The timer left to itself: whole sessions are counted down second by     *)
(* second, with durations of 2 and 1 minutes read from storage and one     *)
(* stored task, which is never selected (selecting is left to Spec, where  *)
(* the pomodoros a task collects are bounded).  The browser calls the      *)
(* callback of a registered interval every second, so the callback is not  *)
(* put off forever while an interval is registered.                        *)
(***************************************************************************)
\* the interval callback, at any value of remaining
TickAny ==
  \E c \in timers :
    /\ Commit(TickCallback(AppState, c), "tick")
    /\ UNCHANGED afterDelete

InitTicking ==
  /\ Init
  /\ loaded.settings = SettingsRecord("object", 120, 60)
  /\ loaded.tasks = TasksRecord("array", <<Task("u1", <<"a">>, FALSE, 0)>>)

NextTicking ==
  \/ TickAny
  \/ StartPause
  \/ ResetTimer
  \/ SwitchSession
  \/ SelectFocus
  \/ SelectBreak

SpecTicking == InitTicking /\ [][NextTicking]_vars /\ WF_vars(TickAny)

(***************************************************************************)
(* Properties.                                                             *)
(***************************************************************************)
\* the tick that ends a session: the callback finds remaining not above 0
SessionCompletes == Tick /\ ~GreaterThanZero(remaining)

\* the configured duration of a session kind, after the step
DurationAfter(isWork) == IF isWork THEN workDuration' ELSE breakDuration'

\* the step flips the session kind and starts the other session in full
FlipsSession ==
  /\ isWorkSession' = ~isWorkSession
  /\ remaining' = DurationAfter(isWorkSession')

\* no task changes its pomodoros
PomodorosUnchanged ==
  /\ Len(tasks') = Len(tasks)
  /\ \A i \in DOMAIN tasks :
       /\ tasks'[i].id = tasks[i].id
       /\ Pomodoros(tasks'[i]) = Pomodoros(tasks[i])

\* C1 as stated: while the timer is running with remaining = 1, a single tick
\* flips the session kind and sets remaining to the full duration of the other
\* session kind.
C1_TickAtOneFlips ==
  [][ (Tick /\ isRunning /\ remaining = 1) => FlipsSession ]_vars

\* C1, amended: while the timer is running, the tick at remaining = 1 only
\* takes remaining to 0 and keeps the session kind; it is the tick at
\* remaining = 0 that flips the session kind and sets remaining to the full
\* configured duration of the other session kind.
C1_TickAtZeroFlips ==
  [][ /\ (Tick /\ isRunning /\ remaining = 1) =>
           (remaining' = 0 /\ isWorkSession' = isWorkSession)
      /\ (Tick /\ isRunning /\ remaining = 0) => FlipsSession ]_vars

\* a tick has just ended a focus session: the break starts in full
C1_Witness ==
  /\ lastOp = "tick"
  /\ isRunning
  /\ ~isWorkSession
  /\ breakDuration = DEFAULT_BREAK
  /\ remaining = breakDuration

\* C2: a tick that completes a WORK session while a task is selected adds
\* exactly 1 to that task's pomodoros and leaves every other task as it was;
\* with selectedTaskId null it leaves the whole list as it was.
C2_CompletionCreditsSelected ==
  [][ (SessionCompletes /\ isWorkSession) =>
        IF selectedTaskId = Null
        THEN tasks' = tasks
        ELSE /\ Len(tasks') = Len(tasks)
             /\ \A i \in DOMAIN tasks :
                  IF tasks[i].id = selectedTaskId
                  THEN /\ Pomodoros(tasks'[i]) = Pomodoros(tasks[i]) + 1
                       /\ tasks'[i].id = tasks[i].id
                       /\ tasks'[i].name = tasks[i].name
                       /\ tasks'[i].done = tasks[i].done
                  ELSE tasks'[i] = tasks[i] ]_vars

\* a tick has just ended a focus session and the selected task, one of two,
\* holds the pomodoro it was credited
C2_Witness ==
  /\ lastOp = "tick"
  /\ ~isWorkSession
  /\ Len(tasks) = 2
  /\ \E i \in DOMAIN tasks :
       tasks[i].id = selectedTaskId /\ tasks[i].pomodoros = 1

\* deleteTask(id) on the selected task leaves selectedTaskId null
DeleteClearsSelection ==
  (\E id \in TaskIds(tasks) : id = selectedTaskId /\ DeleteTask(id)) =>
    selectedTaskId' = Null

\* C3 as stated: after deleteTask on the selected task selectedTaskId is null,
\* and every session completion that follows with no selectTask call in
\* between leaves the pomodoros of every task unchanged.
C3_NoCreditUntilSelect ==
  [][ /\ DeleteClearsSelection
      /\ (SessionCompletes /\ afterDelete \in {"deleted", "added"}) =>
           PomodorosUnchanged ]_vars

\* C3, amended: after deleteTask on the selected task selectedTaskId is null,
\* and every session completion that follows with no selectTask call and no
\* addTask call that adds a task in between leaves the pomodoros of every task
\* unchanged (addTask selects the task it adds when none is selected).
C3_NoCreditUntilSelectOrAdd ==
  [][ /\ DeleteClearsSelection
      /\ afterDelete' = "deleted" => selectedTaskId' = Null
      /\ (SessionCompletes /\ afterDelete = "deleted") => PomodorosUnchanged ]_vars

\* the selected task was deleted and a focus session has ended since, with a
\* task left in the list that could have been credited
C3_Witness ==
  /\ afterDelete = "deleted"
  /\ lastOp = "tick"
  /\ ~isWorkSession
  /\ breakDuration = DEFAULT_BREAK
  /\ remaining = breakDuration
  /\ tasks # <<>>

\* a record that is missing or cannot be used at all
Unusable(r) == r.kind \in {"missing", "malformed", "null"}

\* C4: on load each of the three stored records is handled on its own: a
\* missing or malformed record falls back to its default, and a well-formed
\* record is loaded with its stored values whatever the other two hold.
C4_RecordsLoadIndependently ==
  lastOp \in {"mount", "reload"} =>
    /\ loaded.tasks.kind = "array" => tasks = loaded.tasks.list
    /\ Unusable(loaded.tasks) => tasks = <<>>
    /\ ( /\ loaded.settings.kind = "object"
         /\ NumberIsFinite(loaded.settings.workDuration)
         /\ NumberIsFinite(loaded.settings.breakDuration) ) =>
           /\ workDuration = loaded.settings.workDuration
           /\ breakDuration = loaded.settings.breakDuration
    /\ Unusable(loaded.settings) =>
           /\ workDuration = DEFAULT_WORK
           /\ breakDuration = DEFAULT_BREAK
    /\ ( /\ loaded.state.kind = "object"
         /\ loaded.state.isWorkSession \in {"true", "false"}
         /\ NumberIsFinite(loaded.state.remaining) ) =>
           /\ isWorkSession = (loaded.state.isWorkSession = "true")
           /\ remaining = loaded.state.remaining
    /\ Unusable(loaded.state) =>
           /\ isWorkSession
           /\ remaining \in {DEFAULT_WORK, workDuration}

\* C5: a page reload reproduces the task list, the durations, the session
\* kind and remaining that were in memory, and the stored records hold the
\* same values once the effects of the mount have run.
C5_ReloadRoundTrip ==
  [][ Reload =>
        /\ tasks' = tasks
        /\ workDuration' = workDuration
        /\ breakDuration' = breakDuration
        /\ isWorkSession' = isWorkSession
        /\ remaining' = remaining
        /\ ls' = ls ]_vars

\* C6: in every reachable state workDuration is a whole number of seconds
\* within 1..180 minutes and breakDuration one within 1..60 minutes.
C6_DurationsInRange ==
  /\ workDuration \in (1 * 60)..(180 * 60)
  /\ breakDuration \in (1 * 60)..(60 * 60)

\* minutes given in half minutes, limited to lo..hi minutes, in seconds
ClampedSeconds(halves, lo, hi) ==
  IF halves < 2 * lo THEN lo * 60
  ELSE IF halves > 2 * hi THEN hi * 60
  ELSE halves * 30

\* whole minutes of a value given in half minutes, limited to lo..hi, in seconds
FlooredClampedSeconds(halves, lo, hi) ==
  LET whole == (halves - (halves % 2)) \div 2
  IN  IF whole < lo THEN lo * 60
      ELSE IF whole > hi THEN hi * 60
      ELSE whole * 60

\* the calls of updateDurations the two fields make, with their arguments
DurationCalls ==
  { <<v, 2 * MathRoundMinutes(breakDuration)>> : v \in TypedFocusMinutes }
    \cup { <<2 * MathRoundMinutes(workDuration), v>> : v \in TypedBreakMinutes }

C8_OneIntervalWhileRunning ==
  /\ Cardinality(timers) <= 1
  /\ timers # {} => isRunning
  /\ lastOp = "tick" => isRunning

\* the timer is running and a task was just selected: the effect replaced the
\* interval, and one is registered
C8_Witness ==
  /\ lastOp = "selectTask"
  /\ isRunning
  /\ Cardinality(timers) = 1

\* C9: after every operation that changes tasks, settings or timer state the
\* three stored records equal the task list, {workDuration, breakDuration}
\* and {isWorkSession, remaining} held in memory.
C9_StoredEqualsMemory ==
  lastOp \in { "tick", "resetTimer", "switchSession", "selectFocus", "selectBreak",
               "updateDurations", "addTask", "deleteTask", "toggleTaskDone",
               "editTaskName" } =>
    /\ ls.tasks = TasksRecord("array", tasks)
    /\ ls.settings = SettingsRecord("object", workDuration, breakDuration)
    /\ ls.state = StateRecord("object", IF isWorkSession THEN "true" ELSE "false", remaining)

\* a text with nothing but spaces in it
IsBlank(text) == \A i \in DOMAIN text : text[i] = " "

\* C10: addTask with an empty or whitespace-only input changes nothing: the
\* task list, the selected task id and the timer state stay as they were.
C10_BlankAddIsNoOp ==
  [][ (AddTask /\ IsBlank(taskInput)) =>
        /\ tasks' = tasks
        /\ selectedTaskId' = selectedTaskId
        /\ isRunning' = isRunning
        /\ isWorkSession' = isWorkSession
        /\ remaining' = remaining
        /\ workDuration' = workDuration
        /\ breakDuration' = breakDuration ]_vars

\* addTask has run on an input of two spaces, which is still in the field
C10_Witness ==
  /\ lastOp = "addTask"
  /\ taskInput = <<" ", " ">>

\* text is name with nothing but spaces before it and after it, and name
\* neither starts nor ends with a space
IsTrimmedOf(name, text) ==
  /\ name # <<>>
  /\ name[1] # " "
  /\ name[Len(name)] # " "
  /\ \E k \in 0..Len(text) :
       /\ k + Len(name) <= Len(text)
       /\ SubSeq(text, k + 1, k + Len(name)) = name
       /\ \A i \in DOMAIN text : (i <= k \/ i > k + Len(name)) => text[i] = " "

\* C11: addTask with a non-empty trimmed name puts a new task with that
\* trimmed name, done = false and pomodoros = 0 at the head of the list, and
\* the tasks that were already in the list follow it unchanged and in their
\* previous order.
C11_AddPrepends ==
  [][ (AddTask /\ ~IsBlank(taskInput)) =>
        /\ Len(tasks') = Len(tasks) + 1
        /\ IsTrimmedOf(tasks'[1].name, taskInput)
        /\ tasks'[1].done = FALSE
        /\ tasks'[1].pomodoros = 0
        /\ \A i \in DOMAIN tasks : tasks'[i + 1] = tasks[i] ]_vars

\* " a " was added to a list of two: the new task "a" is first and the two
\* stored tasks follow it
C11_Witness ==
  /\ lastOp = "addTask"
  /\ Len(tasks) = 3
  /\ tasks[1].name = <<"a">>
  /\ ~tasks[1].done
  /\ tasks[1].pomodoros = 0
  /\ tasks[1].id \notin {"u1", "u2"}
  /\ tasks[2].id = "u1"
  /\ tasks[3].id = "u2"

\* C12: after reset, switch or direct mode select, isRunning is false and
\* remaining equals the configured duration of the resulting session kind,
\* where reset keeps the session kind, switch flips it and mode select sets
\* it to the chosen kind; none of the three changes workDuration,
\* breakDuration or the task list.
C12_ExplicitTransitions ==
  [][ /\ ResetTimer => isWorkSession' = isWorkSession
      /\ SwitchSession => isWorkSession' = ~isWorkSession
      /\ SelectFocus => isWorkSession'
      /\ SelectBreak => ~isWorkSession'
      /\ (ResetTimer \/ SwitchSession \/ SelectFocus \/ SelectBreak) =>
           /\ ~isRunning'
           /\ remaining' = (IF isWorkSession' THEN workDuration ELSE breakDuration)
           /\ workDuration' = workDuration
           /\ breakDuration' = breakDuration
           /\ tasks' = tasks ]_vars

\* the timer was switched from a focus session to a break with durations of
\* 2 and 1 minutes: it is stopped with the whole break remaining
C12_Witness ==
  /\ lastOp = "switchSession"
  /\ ~isRunning
  /\ ~isWorkSession
  /\ workDuration = 120
  /\ breakDuration = 60
  /\ remaining = 60

\* C13: toggleTaskDone, deleteTask, editTaskName and selectTask called with
\* an id that no task in the list has are no-ops: the task list and
\* selectedTaskId are unchanged.
C13_UnknownIdIsNoOp ==
  [][ \A id \in CallIds :
        ( /\ id \notin TaskIds(tasks)
          /\ \/ ToggleTaskDone(id)
             \/ DeleteTask(id)
             \/ \E name \in CallNames : EditTaskName(id, name)
             \/ SelectTask(id) ) =>
          /\ tasks' = tasks
          /\ selectedTaskId' = selectedTaskId ]_vars

\* the ids of a list, in the order of the list
IdSeq(ts) == [i \in DOMAIN ts |-> ts[i].id]

\* ids without every occurrence of id
RECURSIVE Without(_, _)
Without(ids, id) ==
  IF ids = <<>> THEN <<>>
  ELSE IF Head(ids) = id THEN Without(Tail(ids), id)
  ELSE <<Head(ids)>> \o Without(Tail(ids), id)

\* C14: in every reachable state no two tasks in the list have the same id,
\* and no operation (toggle, rename, pomodoro increment, add, delete of
\* another task) changes the id of an existing task.
C14_IdsUniqueAndImmutable ==
  /\ [](\A i, j \in DOMAIN tasks : tasks[i].id = tasks[j].id => i = j)
  /\ [][ /\ (OnToggle \/ ConfirmEdit \/ Tick) => IdSeq(tasks') = IdSeq(tasks)
         /\ AddTask => \/ IdSeq(tasks') = IdSeq(tasks)
                       \/ Tail(IdSeq(tasks')) = IdSeq(tasks)
         /\ OnDelete => \E id \in TaskIds(tasks) :
                          IdSeq(tasks') = Without(IdSeq(tasks), id) ]_vars

\* C15: in every reachable state, including states reached by loading a
\* stored timer-state record, remaining is an integer that is greater than or
\* equal to 0.
C15_RemainingIsNatural == remaining \in Nat

\* C17: in every reachable state selectedTaskId is either null or the id of a
\* task that is currently in the task list, after any sequence of add,
\* delete, select of a listed task, rename, toggle, ticks and load.
C17_SelectionIsListed == selectedTaskId = Null \/ selectedTaskId \in TaskIds(tasks)

\* the selected task was just deleted from a list that still holds a task:
\* nothing is selected
C17_Witness ==
  /\ lastOp = "deleteTask"
  /\ afterDelete = "deleted"
  /\ tasks # <<>>
  /\ selectedTaskId = Null

\* C16: if the timer stays running and ticks keep firing with no user action
\* in between, the current session eventually ends and the session kind
\* alternates WORK, BREAK, WORK, ... forever, each new session starting with
\* remaining equal to its configured duration.
C16_SessionsAlternate ==
  /\ [][ (TickAny /\ ~GreaterThanZero(remaining)) => FlipsSession ]_vars
  /\ <>[]isRunning =>
       /\ []<>(isWorkSession /\ remaining = workDuration)
       /\ []<>(~isWorkSession /\ remaining = breakDuration)

\* a focus session was counted down, second by second, to its last second
\* by a timer started once and never touched since
C16_Witness ==
  /\ lastOp = "tick"
  /\ steps = 1
  /\ isRunning
  /\ isWorkSession
  /\ workDuration = 120
  /\ remaining = 1
  /\ ls.state = StateRecord("object", "true", 1)

\* C18: a task's pomodoros value changes only in a tick that completes a WORK
\* session: the completion of a BREAK session, a tick that only decrements
\* remaining, reset, manual switch, mode select, duration update,
\* start/pause, toggle done and rename all leave the pomodoros of every task
\* unchanged.
C18_OnlyWorkCompletionCredits ==
  [][ ( \/ Tick /\ (GreaterThanZero(remaining) \/ ~isWorkSession)
        \/ ResetTimer
        \/ SwitchSession
        \/ SelectFocus
        \/ SelectBreak
        \/ ChangeFocusMinutes
        \/ ChangeBreakMinutes
        \/ StartPause
        \/ OnToggle
        \/ ConfirmEdit ) =>
        /\ Len(tasks') = Len(tasks)
        /\ \A i \in DOMAIN tasks :
             /\ tasks'[i].id = tasks[i].id
             /\ tasks'[i].pomodoros = tasks[i].pomodoros ]_vars

\* a tick has just ended a break while a task was selected: the focus session
\* starts in full and the selected task has no pomodoro
C18_Witness ==
  /\ lastOp = "tick"
  /\ isRunning
  /\ isWorkSession
  /\ remaining = workDuration
  /\ \E i \in DOMAIN tasks :
       tasks[i].id = selectedTaskId /\ tasks[i].pomodoros = 0

C20_StartPauseOnlyTogglesRunning ==
  [][ StartPause =>
        /\ isRunning' = ~isRunning
        /\ UNCHANGED << remaining, isWorkSession, workDuration, breakDuration,
                        tasks, selectedTaskId >> ]_vars

\* a break was counted down to 0, paused there and resumed: the timer runs
\* again with remaining still 0
C20_Witness ==
  /\ lastOp = "startPause"
  /\ isRunning
  /\ timers # {}
  /\ ~isWorkSession
  /\ remaining = 0

====
